---- MODULE Spec2Model ----
(***************************************************************************)
(* The product scraper: add_urls_to_db.py fills the products table with    *)
(* links, get_product_details.py loads the pending links, scrapes each in  *)
(* a pool of worker threads (one Chrome instance per link), writes the     *)
(* result back and finally dumps the table to a CSV file.                  *)
(*                                                                         *)
(* A Python str is a sequence of text fragments (<<>> is ''), so that an   *)
(* f-string is a concatenation; an SQL value is NULL or a TEXT holding a   *)
(* str, so that '' and NULL are different values, as they are in SQLite.   *)
(***************************************************************************)
EXTENDS Integers, Sequences, FiniteSets, TLC

\* ---------------------------------------------------------------- bounds
\* max_workers of the pool; the script configures 4, the model scales it down.
NUM_WORKERS == 1
\* Longest links.txt (in lines) the ingestion reads.
MaxLines == 2

\* ---------------------------------------------------------------- values
Urls == {"A", "B"}

EmptyStr == <<>>
NULL == [null |-> TRUE, text |-> <<>>]
TEXT(s) == [null |-> FALSE, text |-> s]
\* sqlite3 binds a Python str, the empty one too, as TEXT; only None is NULL.
Bind(s) == TEXT(s)

\* The columns of CREATE TABLE products, in declaration order.
setup_database == <<"link", "product_name", "price", "discount", "error", "scraped_at">>

CURRENT_TIMESTAMP == TEXT(<<"CURRENT_TIMESTAMP">>)

\* What a rendered page can give the three extractors.
Titles == {EmptyStr, <<"Widget">>}
Prices == {EmptyStr, <<"$9.99">>}
Discounts == {EmptyStr, <<"-30%">>}

\* driver.get failures caught by `except (TimeoutException, WebDriverException)`.
NavErrors == {"TimeoutException", "WebDriverException"}
\* A failure of the first driver.get that is no WebDriverException.
OtherNavError == "MaxRetryError"
\* An exception of extraction that try_find does not catch.
ExtractError == "StaleElementReferenceException"
\* An exception of webdriver.Chrome(...).
DriverError == "SessionNotCreatedException"
\* sqlite3.OperationalError of a store write.
StoreError == "database is locked"
\* An exception of a print of the result, raised by the stream's encoder.
PrintError == "UnicodeEncodeError"

FieldsNotFound == <<"Could not find title or price. Page layout may be unexpected.">>

\* f"Page load failed on retry: {e2} (original error: {e})"
PageLoadFailed(e, e2) ==
    <<"Page load failed on retry: ", e2, " (original error: ", e, ")">>

\* ---------------------------------------------------------------- the store
\* A row as INSERT OR IGNORE INTO products (link) creates it.
NewRow(url) ==
    [link |-> url, product_name |-> NULL, price |-> NULL, discount |-> NULL,
     error |-> NULL, scraped_at |-> NULL]

Links(d) == {d[i].link : i \in 1..Len(d)}

\* INSERT OR REPLACE: the row with the link is deleted and a new one inserted.
InsertOrReplace(d, url) ==
    SelectSeq(d, LAMBDA r : r.link # url) \o <<NewRow(url)>>

\* INSERT OR IGNORE INTO products (link) VALUES (?): link is the PRIMARY KEY.
InsertOrIgnore(d, url) == IF url \in Links(d) THEN d ELSE Append(d, NewRow(url))

\* The selection without its retry of failed rows.
IsPending_NoRetry(row) == row.product_name.null

\* WHERE product_name IS NULL OR error IS NOT NULL
IsPending(row) == row.product_name.null \/ ~row.error.null

\* load_urls_from_db: the links of the pending rows, in the order fetchall gives them.
RECURSIVE load_urls_from_db(_)
load_urls_from_db(d) ==
    IF d = <<>> THEN <<>>
    ELSE IF IsPending(Head(d))
         THEN <<Head(d).link>> \o load_urls_from_db(Tail(d))
         ELSE load_urls_from_db(Tail(d))

\* UPDATE products SET product_name = ?, price = ?, discount = ?, error = ?,
\*   scraped_at = CURRENT_TIMESTAMP WHERE link = ?
update_db_record(d, result) ==
    [i \in 1..Len(d) |->
        IF d[i].link = result.link
        THEN [link |-> d[i].link,
              product_name |-> Bind(result.product_name),
              price |-> Bind(result.Price),
              discount |-> Bind(result.discount),
              error |-> Bind(result.error),
              scraped_at |-> CURRENT_TIMESTAMP]
        ELSE d[i]]

\* ---------------------------------------------------------------- ingestion
Whitespace == {" ", "\n"}

\* The raw lines links.txt can hold: a link with its newline, a padded link,
\* a blank line.
RawLines == {<<"A", "\n">>, <<" ", "B", "\n">>, <<"\n">>}

RECURSIVE lstrip(_)
lstrip(line) ==
    IF line # <<>> /\ Head(line) \in Whitespace THEN lstrip(Tail(line)) ELSE line

RECURSIVE rstrip(_)
rstrip(line) ==
    IF line # <<>> /\ line[Len(line)] \in Whitespace
    THEN rstrip(SubSeq(line, 1, Len(line) - 1))
    ELSE line

strip(line) == rstrip(lstrip(line))

\* urls = [line.strip() for line in f if line.strip()]
RECURSIVE read_urls(_)
read_urls(lines) ==
    IF lines = <<>> THEN <<>>
    ELSE IF strip(Head(lines)) # <<>>
         THEN <<strip(Head(lines))[1]>> \o read_urls(Tail(lines))
         ELSE read_urls(Tail(lines))

\* for url in urls: cursor.execute("INSERT OR IGNORE ...")
RECURSIVE insert_urls(_, _)
insert_urls(d, urls) ==
    IF urls = <<>> THEN d
    ELSE insert_urls(InsertOrIgnore(d, Head(urls)), Tail(urls))

InputFiles == UNION {[1..n -> RawLines] : n \in 0..MaxLines}

VARIABLES
    db,         \* the products table: its rows in rowid order
    csv,        \* what the running invocation of main has exported (NoFile until it does)
    phase,      \* where main is
    tasks,      \* one entry per executor.submit(process_url, url, ...), in submit order
    succeeded,  \* the links whose stored record is that of a successful scrape
    links,      \* the urls add_urls_to_database last read, since the scraper last started
    page,       \* the rendered page the price lookups of one scrape_one call see
    price_val,  \* the local `price` of that scrape_one call
    price_pc,   \* where that call stands in its price code ("off": no call is followed)
    tried       \* the price strategies that call has run, in order

pipeVars == <<db, csv, phase, tasks, succeeded, links>>
priceVars == <<page, price_val, price_pc, tried>>
vars == <<pipeVars, priceVars>>

NoFile == <<>>
None == <<>>
Some(x) == <<x>>

\* ---------------------------------------------------------------- scrape_one
\* result = {"link": url, "product_name": "", "Price": "", "discount": "", "error": ""}
InitialResult(url) ==
    [link |-> url, product_name |-> EmptyStr, Price |-> EmptyStr,
     discount |-> EmptyStr, error |-> EmptyStr]

\* The load failure with the retry's message alone.
LoadFailure_RetryOnly(url, e, e2) ==
    [InitialResult(url) EXCEPT !.error = <<"Page load failed: ", e2>>]

\* The retry failed too: result["error"] = f"Page load failed on retry: ..."; return result
LoadFailure(url, e, e2) ==
    [InitialResult(url) EXCEPT !.error = PageLoadFailed(e, e2)]

\* result["product_name"] = title ... if not title and not price: result["error"] = ...
Extracted(url, title, price, discount) ==
    [link |-> url, product_name |-> title, Price |-> price, discount |-> discount,
     error |-> IF title = EmptyStr /\ price = EmptyStr THEN FieldsNotFound ELSE EmptyStr]

\* The two driver.get calls of scrape_one: what each did, and how the function
\* goes on: to the overlays and extractors ("opened"), out with the load failure
\* as its result ("failed"), or out with an exception the first except clause
\* does not catch ("raised").
Navigations(url) ==
    {[nav |-> <<"ok">>, to |-> "opened", ret |-> None, exc |-> ""]}
    \cup {[nav |-> <<OtherNavError>>, to |-> "raised", ret |-> None, exc |-> OtherNavError]}
    \cup {[nav |-> <<e, "ok">>, to |-> "opened", ret |-> None, exc |-> ""] : e \in NavErrors}
    \cup {[nav |-> <<e, e2>>, to |-> "failed", ret |-> Some(LoadFailure(url, e, e2)),
           exc |-> ""] : e \in NavErrors, e2 \in NavErrors}

\* The overlay dismissal and the three extractors on the opened page: the
\* result, or an exception that try_find does not catch.
Extractions(url) ==
    {[ret |-> Some(Extracted(url, t, p, d)), exc |-> ""] :
        t \in Titles, p \in Prices, d \in Discounts}
    \cup {[ret |-> None, exc |-> ExtractError]}

\* ---------------------------------------------------------------- process_url
NewTask(url) ==
    [url |-> url, pc |-> "queued", driver |-> "none", result |-> None, exc |-> "",
     raising |-> FALSE, future |-> "pending", nav |-> <<>>, overlays |-> FALSE,
     writes |-> 0]

Running == {i \in 1..Len(tasks) : tasks[i].pc \notin {"queued", "done"}}

\* A pool that starts a thread for every work item submitted.
CanStart_ThreadPerItem(i) ==
    /\ i \in 1..Len(tasks)
    /\ tasks[i].pc = "queued"
    /\ \A j \in 1..(i - 1) : tasks[j].pc # "queued"

\* The pool hands the oldest queued work item to a free thread.
CanStart(i) ==
    /\ i \in 1..Len(tasks)
    /\ tasks[i].pc = "queued"
    /\ \A j \in 1..(i - 1) : tasks[j].pc # "queued"
    /\ Cardinality(Running) < NUM_WORKERS

\* driver = setup_driver(user_agent): a driver, an exception of webdriver.Chrome,
\* or the sys.exit(1) of its except clause.
setup_driver(i) ==
    /\ phase \in {"collect", "shutdown"}
    /\ CanStart(i)
    /\ \E out \in {"driver", "raise", "exit"} :
        tasks' = [tasks EXCEPT ![i] =
            CASE out = "driver" -> [@ EXCEPT !.pc = "scrape", !.driver = "open"]
              [] out = "raise" -> [@ EXCEPT !.pc = "done", !.future = "raised",
                                            !.exc = DriverError, !.raising = TRUE]
              [] out = "exit" -> [@ EXCEPT !.pc = "done", !.future = "exit",
                                           !.exc = "SystemExit", !.raising = TRUE]]
    /\ UNCHANGED <<db, csv, phase, succeeded, links, priceVars>>

\* result = scrape_one(driver, url), as far as its driver.get calls
scrape_one_get(i) ==
    /\ i \in 1..Len(tasks)
    /\ tasks[i].pc = "scrape"
    /\ \E run \in Navigations(tasks[i].url) :
        tasks' = [tasks EXCEPT ![i] =
            [@ EXCEPT !.pc = CASE run.to = "opened" -> "opened"
                              [] run.to = "failed" -> "update"
                              [] run.to = "raised" -> "except",
                      !.result = run.ret, !.exc = run.exc, !.nav = run.nav]]
    /\ UNCHANGED <<db, csv, phase, succeeded, links, priceVars>>

\* scrape_one after the page has opened
scrape_one_extract(i) ==
    /\ i \in 1..Len(tasks)
    /\ tasks[i].pc = "opened"
    /\ \E run \in Extractions(tasks[i].url) :
        tasks' = [tasks EXCEPT ![i] =
            [@ EXCEPT !.pc = IF run.exc = "" THEN "update" ELSE "except",
                      !.result = run.ret, !.exc = run.exc, !.nav = <<>>,
                      !.overlays = TRUE]]
    /\ UNCHANGED <<db, csv, phase, succeeded, links, priceVars>>

\* update_db_record(result), then the prints of the result: the write and the
\* prints go through, or the write commits and a print raises, or the write
\* raises.
process_url_update(i) ==
    /\ i \in 1..Len(tasks)
    /\ tasks[i].pc = "update"
    /\ \/ /\ db' = update_db_record(db, tasks[i].result[1])
          /\ tasks' = [tasks EXCEPT ![i] =
                [@ EXCEPT !.pc = "finally", !.writes = @ + 1, !.result = None,
                          !.nav = <<>>]]
          /\ succeeded' =
                IF tasks[i].result[1].product_name # EmptyStr
                THEN succeeded \cup {tasks[i].url}
                ELSE succeeded \ {tasks[i].url}
       \/ /\ db' = update_db_record(db, tasks[i].result[1])
          /\ tasks' = [tasks EXCEPT ![i] =
                [@ EXCEPT !.pc = "except", !.exc = PrintError, !.writes = @ + 1,
                          !.result = None, !.nav = <<>>]]
          /\ succeeded' =
                IF tasks[i].result[1].product_name # EmptyStr
                THEN succeeded \cup {tasks[i].url}
                ELSE succeeded \ {tasks[i].url}
       \/ /\ tasks' = [tasks EXCEPT ![i] =
                [@ EXCEPT !.pc = "except", !.exc = StoreError, !.result = None,
                          !.nav = <<>>]]
          /\ UNCHANGED <<db, succeeded>>
    /\ UNCHANGED <<csv, phase, links, priceVars>>

\* {"link": url, "product_name": "", "Price": "", "discount": "", "error": str(e)}
ErrorRecord(url, e) == [InitialResult(url) EXCEPT !.error = <<e>>]

\* except Exception as e: update_db_record({... "error": str(e)})
process_url_except(i) ==
    /\ i \in 1..Len(tasks)
    /\ tasks[i].pc = "except"
    /\ \/ /\ db' = update_db_record(db, ErrorRecord(tasks[i].url, tasks[i].exc))
          /\ tasks' = [tasks EXCEPT ![i] =
                [@ EXCEPT !.pc = "finally", !.writes = @ + 1]]
          /\ succeeded' = succeeded \ {tasks[i].url}
       \/ /\ tasks' = [tasks EXCEPT ![i] =
                [@ EXCEPT !.pc = "finally", !.exc = StoreError, !.raising = TRUE]]
          /\ UNCHANGED <<db, succeeded>>
    /\ UNCHANGED <<csv, phase, links, priceVars>>

\* driver.quit() as the last statement of the try block: skipped by an exception.
process_url_quit_in_try(i) ==
    /\ i \in 1..Len(tasks)
    /\ tasks[i].pc = "finally"
    /\ tasks' = [tasks EXCEPT ![i] =
            [@ EXCEPT !.pc = "sleep",
                      !.driver = IF tasks[i].exc = "" THEN "closed" ELSE @]]
    /\ UNCHANGED <<db, csv, phase, succeeded, links, priceVars>>

\* finally: driver.quit()
process_url_finally(i) ==
    /\ i \in 1..Len(tasks)
    /\ tasks[i].pc = "finally"
    /\ tasks' = [tasks EXCEPT ![i] = [@ EXCEPT !.pc = "sleep", !.driver = "closed"]]
    /\ UNCHANGED <<db, csv, phase, succeeded, links, priceVars>>

\* time.sleep(...) of the finally clause, then return url or the pending exception
process_url_return(i) ==
    /\ i \in 1..Len(tasks)
    /\ tasks[i].pc = "sleep"
    /\ tasks' = [tasks EXCEPT ![i] =
            [@ EXCEPT !.pc = "done",
                      !.future = IF tasks[i].raising THEN "raised" ELSE "returned"]]
    /\ UNCHANGED <<db, csv, phase, succeeded, links, priceVars>>

\* ---------------------------------------------------------------- main
AllDone == \A i \in 1..Len(tasks) : tasks[i].pc = "done"

\* main without the sys.exit(1) of load_urls_from_db: the pool is entered with
\* no url.
main_start_NoExit ==
    /\ phase = "idle"
    /\ LET urls == load_urls_from_db(db) IN
        /\ tasks' = [i \in 1..Len(urls) |-> NewTask(urls[i])]
        /\ phase' = "collect"
    /\ csv' = NoFile
    /\ links' = <<>>
    /\ UNCHANGED <<db, succeeded, priceVars>>

\* urls = load_urls_from_db() (sys.exit(1) when there is none), then one
\* executor.submit per url
main_start ==
    /\ phase = "idle"
    /\ LET urls == load_urls_from_db(db) IN
        /\ tasks' = [i \in 1..Len(urls) |-> NewTask(urls[i])]
        /\ phase' = IF urls = <<>> THEN "exited" ELSE "collect"
    /\ csv' = NoFile
    /\ links' = <<>>
    /\ UNCHANGED <<db, succeeded, priceVars>>

\* future.result() re-raises a SystemExit, which `except Exception` lets through:
\* main leaves the loop and the with block waits for the pool.
main_result_exit ==
    /\ phase = "collect"
    /\ \E i \in 1..Len(tasks) : tasks[i].future = "exit"
    /\ phase' = "shutdown"
    /\ UNCHANGED <<db, csv, tasks, succeeded, links, priceVars>>

\* executor.__exit__: shutdown(wait=True), then the SystemExit ends the process
main_exit ==
    /\ phase = "shutdown"
    /\ AllDone
    /\ phase' = "exited"
    /\ UNCHANGED <<db, csv, tasks, succeeded, links, priceVars>>

\* as_completed has yielded every future; each result() returned or raised an
\* Exception that was printed
main_as_completed ==
    /\ phase = "collect"
    /\ AllDone
    /\ \A i \in 1..Len(tasks) : tasks[i].future # "exit"
    /\ phase' = "export"
    /\ UNCHANGED <<db, csv, tasks, succeeded, links, priceVars>>

\* The dump cut to the columns link, product_name, price, discount, error.
Dump_FixedColumns(d) ==
    [header |-> SubSeq(setup_database, 1, 5),
     rows |-> [i \in 1..Len(d) |->
        <<TEXT(<<d[i].link>>), d[i].product_name, d[i].price, d[i].discount, d[i].error>>]]

\* pd.read_sql_query("SELECT * FROM products", conn).to_csv(OUTPUT_CSV, index=False)
Dump(d) ==
    [header |-> setup_database,
     rows |-> [i \in 1..Len(d) |->
        [j \in 1..Len(setup_database) |->
            CASE setup_database[j] = "link" -> TEXT(<<d[i].link>>)
              [] setup_database[j] = "product_name" -> d[i].product_name
              [] setup_database[j] = "price" -> d[i].price
              [] setup_database[j] = "discount" -> d[i].discount
              [] setup_database[j] = "error" -> d[i].error
              [] setup_database[j] = "scraped_at" -> d[i].scraped_at]]]

export_db_to_csv ==
    /\ phase = "export"
    /\ csv' = Some(Dump(db))
    /\ phase' = "done"
    /\ UNCHANGED <<db, tasks, succeeded, links, priceVars>>

\* The process of main has ended, by its return or by a SystemExit: its threads
\* and futures are gone, the table stays.
main_ended ==
    /\ phase \in {"done", "exited"}
    /\ phase' = "idle"
    /\ tasks' = <<>>
    /\ csv' = NoFile
    /\ UNCHANGED <<db, succeeded, links, priceVars>>

\* ---------------------------------------------------------------- add_urls_to_db.py
\* add_urls_to_database on some links.txt, run between two runs of the scraper
add_urls_to_database ==
    /\ phase = "idle"
    /\ \E lines \in InputFiles :
        /\ links' = read_urls(lines)
        /\ db' = insert_urls(db, links')
    /\ UNCHANGED <<csv, phase, tasks, succeeded, priceVars>>

\* ---------------------------------------------------------------- the price lookups
\* Longest list driver.find_elements returns for the offscreen spans and for
\* the meta tags.
MaxElems == 1

\* price_selectors of extract_price, in list order: its first and its last.
price_selectors == <<"priceblock_ourprice", "span.priceToPay > span">>

\* ch.isdigit()
Digits == {"0", "1", "2", "3", "4", "5", "6", "7", "8", "9"}

\* The check left out: any text passes.
any_isdigit_Always(txt) == TRUE

\* any(ch.isdigit() for ch in txt)
any_isdigit(txt) == \E k \in 1..Len(txt) : txt[k] \in Digits

\* txt.split(): the words of txt, cut at runs of whitespace
RECURSIVE split(_, _)
split(txt, word) ==
    IF txt = <<>> THEN (IF word = <<>> THEN <<>> ELSE <<word>>)
    ELSE IF Head(txt) \in Whitespace
         THEN (IF word = <<>> THEN <<>> ELSE <<word>>) \o split(Tail(txt), <<>>)
         ELSE split(Tail(txt), Append(word, Head(txt)))

\* " ".join(words)
RECURSIVE join(_)
join(words) ==
    IF words = <<>> THEN <<>>
    ELSE IF Len(words) = 1 THEN Head(words)
         ELSE Head(words) \o <<" ">> \o join(Tail(words))

\* An element of the page, as the lookups read it: .text (what is displayed)
\* and the innerText attribute; found is FALSE where find_element raises
\* NoSuchElementException.
NoSuchElement == [found |-> FALSE, text |-> <<>>, innerText |-> <<>>]

Elements ==
    {[found |-> TRUE, text |-> <<>>, innerText |-> <<>>],
     [found |-> TRUE, text |-> <<>>, innerText |-> <<" ", "9">>],
     [found |-> TRUE, text |-> <<"N", "A">>, innerText |-> <<"N", "A">>],
     [found |-> TRUE, text |-> <<"$", " ", " ", "9">>, innerText |-> <<"$", " ", " ", "9">>]}

\* The content attribute of a meta tag whose name or property contains 'price'.
MetaContents == {<<>>, <<"I", "N", "R">>, <<"9", " ">>}

Pages ==
    [selectors : [1..Len(price_selectors) -> Elements \cup {NoSuchElement}],
     offscreens : UNION {[1..n -> Elements] : n \in 0..MaxElems},
     metas : UNION {[1..n -> MetaContents] : n \in 0..MaxElems}]

NoPage ==
    [selectors |-> [k \in 1..Len(price_selectors) |-> NoSuchElement],
     offscreens |-> <<>>, metas |-> <<>>]

\* try_find: the stripped text of the element, its stripped innerText when
\* that is empty, "" when there is no such element
try_find(el) ==
    IF ~el.found THEN EmptyStr
    ELSE IF strip(el.text) # EmptyStr THEN strip(el.text) ELSE strip(el.innerText)

\* for by, sel in price_selectors: ... return txt
RECURSIVE price_selectors_loop(_, _)
price_selectors_loop(pg, k) ==
    IF k > Len(price_selectors) THEN EmptyStr
    ELSE LET txt == try_find(pg.selectors[k]) IN
         IF txt # EmptyStr /\ any_isdigit(join(split(txt, <<>>)))
         THEN join(split(txt, <<>>))
         ELSE price_selectors_loop(pg, k + 1)

\* for o in offscreens: txt = (o.get_attribute("innerText") or o.text or "").strip() ...
RECURSIVE offscreens_loop(_)
offscreens_loop(els) ==
    IF els = <<>> THEN EmptyStr
    ELSE LET txt == strip(IF Head(els).innerText # EmptyStr THEN Head(els).innerText
                          ELSE Head(els).text) IN
         IF txt # EmptyStr /\ any_isdigit(txt) THEN txt ELSE offscreens_loop(Tail(els))

\* extract_price: the selector list, then the scan of span.a-offscreen
extract_price(pg) ==
    IF price_selectors_loop(pg, 1) # EmptyStr
    THEN price_selectors_loop(pg, 1)
    ELSE offscreens_loop(pg.offscreens)

\* The strategies one call of extract_price runs.
extract_price_ran(pg) ==
    IF price_selectors_loop(pg, 1) # EmptyStr
    THEN <<"price_selectors">>
    ELSE <<"price_selectors", "offscreens">>

\* for m in metas: val = (m.get_attribute("content") or "").strip() ...
RECURSIVE metas_loop(_)
metas_loop(ms) ==
    IF ms = <<>> THEN EmptyStr
    ELSE IF strip(Head(ms)) # EmptyStr /\ any_isdigit(strip(Head(ms)))
         THEN strip(Head(ms))
         ELSE metas_loop(Tail(ms))

\* price = extract_price(driver)   (line 230)
scrape_one_extract_price ==
    /\ price_pc = "extract"
    /\ price_val' = extract_price(page)
    /\ tried' = tried \o extract_price_ran(page)
    /\ price_pc' = "meta"
    /\ UNCHANGED <<page, pipeVars>>

\* if not price: metas = driver.find_elements(...) ...   (lines 234-244)
scrape_one_metas ==
    /\ price_pc = "meta"
    /\ IF price_val = EmptyStr
       THEN /\ price_val' = metas_loop(page.metas)
            /\ tried' = Append(tried, "metas")
       ELSE UNCHANGED <<price_val, tried>>
    /\ price_pc' = IF price_val' = EmptyStr THEN "sleep" ELSE "result"
    /\ UNCHANGED <<page, pipeVars>>

\* if not price: time.sleep(1.0): the page goes on rendering meanwhile
scrape_one_sleep ==
    /\ price_pc = "sleep"
    /\ page' \in Pages
    /\ price_pc' = "retry"
    /\ UNCHANGED <<price_val, tried, pipeVars>>

\* price = extract_price(driver)   (line 249)
scrape_one_recheck ==
    /\ price_pc = "retry"
    /\ price_val' = extract_price(page)
    /\ tried' = tried \o extract_price_ran(page)
    /\ price_pc' = "result"
    /\ UNCHANGED <<page, pipeVars>>

InitPrice ==
    /\ db = <<>>
    /\ csv = NoFile
    /\ phase = "idle"
    /\ tasks = <<>>
    /\ succeeded = {}
    /\ links = <<>>
    /\ page \in Pages
    /\ price_val = EmptyStr
    /\ price_pc = "extract"
    /\ tried = <<>>

NextPrice ==
    \/ scrape_one_extract_price
    \/ scrape_one_metas
    \/ scrape_one_sleep
    \/ scrape_one_recheck

SpecPrice == InitPrice /\ [][NextPrice]_vars

\* ---------------------------------------------------------------- specification
Init ==
    /\ db = <<>>
    /\ csv = NoFile
    /\ phase = "idle"
    /\ tasks = <<>>
    /\ succeeded = {}
    /\ links = <<>>
    /\ page = NoPage
    /\ price_val = EmptyStr
    /\ price_pc = "off"
    /\ tried = <<>>

Next ==
    \/ add_urls_to_database
    \/ main_start
    \/ \E i \in 1..Len(tasks) : setup_driver(i)
    \/ \E i \in 1..Len(tasks) : scrape_one_get(i)
    \/ \E i \in 1..Len(tasks) : scrape_one_extract(i)
    \/ \E i \in 1..Len(tasks) : process_url_update(i)
    \/ \E i \in 1..Len(tasks) : process_url_except(i)
    \/ \E i \in 1..Len(tasks) : process_url_finally(i)
    \/ \E i \in 1..Len(tasks) : process_url_return(i)
    \/ main_result_exit
    \/ main_exit
    \/ main_as_completed
    \/ export_db_to_csv
    \/ main_ended

Spec == Init /\ [][Next]_vars

\* ---------------------------------------------------------------- any table
\* The scraper started on a products table it did not fill itself: every row
\* has any mix of NULL, '' and text in the two columns the selection reads.
AnyRows(url) ==
    {[NewRow(url) EXCEPT !.product_name = n, !.error = e] :
        n \in {NULL, TEXT(EmptyStr), TEXT(<<"Widget">>)},
        e \in {NULL, TEXT(EmptyStr), TEXT(FieldsNotFound)}}

AnyTables ==
    {<<>>}
    \cup UNION {{<<r>> : r \in AnyRows(u)} : u \in Urls}
    \cup UNION {{<<r, q>> : r \in AnyRows(uv[1]), q \in AnyRows(uv[2])} :
                    uv \in {p \in Urls \X Urls : p[1] # p[2]}}

InitStore ==
    /\ db \in AnyTables
    /\ csv = NoFile
    /\ phase = "idle"
    /\ tasks = <<>>
    /\ succeeded = {}
    /\ links = <<>>
    /\ page = NoPage
    /\ price_val = EmptyStr
    /\ price_pc = "off"
    /\ tried = <<>>

SpecStore == InitStore /\ [][Next]_vars

\* ---------------------------------------------------------------- claims
Row(url) == db[CHOOSE k \in 1..Len(db) : db[k].link = url]

TaskIds == 1..Len(tasks)

JustLoaded == phase = "collect" /\ \A i \in TaskIds : tasks[i].pc = "queued"

\* C1: a link whose scrape succeeded and was stored is not in the pending
\* selection the next run of main takes.
C1_SuccessNotRevisited ==
    JustLoaded => \A i \in TaskIds : tasks[i].url \notin succeeded

\* C2: load_urls_from_db selects exactly the rows whose product_name is NULL
\* or whose error is not NULL, each once, so every row with an error is taken
\* up by the next run; within a run the list of submitted links stays as
\* loaded and a finished invocation is not started again.
C2_SelectPending ==
    [][/\ (phase = "idle" /\ phase' # "idle") =>
            LET pend == {k \in 1..Len(db) : db[k].product_name = NULL \/ db[k].error # NULL}
            IN  /\ {tasks'[i].url : i \in 1..Len(tasks')} = {db[k].link : k \in pend}
                /\ Len(tasks') = Cardinality(pend)
                /\ \A k \in 1..Len(db) :
                        db[k].error # NULL => \E i \in 1..Len(tasks') : tasks'[i].url = db[k].link
       /\ (phase # "idle" /\ phase' # "idle") =>
            /\ Len(tasks') = Len(tasks)
            /\ \A i \in TaskIds :
                /\ tasks'[i].url = tasks[i].url
                /\ tasks[i].pc = "done" => tasks'[i].pc = "done"
                /\ tasks[i].pc # "queued" => tasks'[i].pc # "queued"
      ]_vars

\* C2 witness: a run has just loaded a table in which one row failed before
\* (a title and an error) and was selected, and another row was left out.
C2_Witness ==
    /\ JustLoaded
    /\ \E i \in TaskIds :
        /\ Row(tasks[i].url).error # NULL
        /\ Row(tasks[i].url).product_name # NULL
    /\ \E k \in 1..Len(db) : \A i \in TaskIds : tasks[i].url # db[k].link

RunReturned == phase \in {"done", "exited"} /\ tasks # <<>>

\* C3: every pending link is submitted to exactly one invocation of
\* process_url, and when the run returns every submitted link's row has a
\* scraped_at.
C3_EachUrlOnceAndStamped ==
    /\ \A i, j \in TaskIds : tasks[i].url = tasks[j].url => i = j
    /\ JustLoaded =>
            {tasks[i].url : i \in TaskIds} = {db[k].link : k \in {k \in 1..Len(db) : IsPending(db[k])}}
    /\ RunReturned =>
            \A i \in TaskIds : tasks[i].pc = "done" /\ Row(tasks[i].url).scraped_at # NULL

\* C4: an exception raised while one link is processed ends up as the error
\* of that link's row, no exception leaves main, and the other invocations
\* run to their end.
C4_ExceptionContained ==
    /\ \A i \in TaskIds :
            (tasks[i].pc = "done" /\ tasks[i].exc # "") =>
                Row(tasks[i].url).error = TEXT(<<tasks[i].exc>>)
    /\ phase # "shutdown"
    /\ phase = "exited" => tasks = <<>>
    /\ phase \in {"done", "exited"} => AllDone

Contains(str, fragment) == \E k \in 1..Len(str) : str[k] = fragment

\* C6: scrape_one calls driver.get at most twice, the second time exactly
\* when the first raised a timeout or transport error; when the retry fails
\* too, the overlays and extractors are skipped and the record written has
\* empty title, price and discount and an error holding both messages; when
\* the retry succeeds the invocation stands where a first success stands.
C6_NavigationRetry ==
    [][/\ \A i \in 1..Len(tasks') :
            LET t == tasks'[i] IN
            /\ Len(t.nav) <= 2
            /\ Len(t.nav) = 2 <=> (t.nav # <<>> /\ t.nav[1] \in NavErrors)
            /\ t.pc = "opened" <=> (t.nav # <<>> /\ t.nav[Len(t.nav)] = "ok")
            /\ (Len(t.nav) = 2 /\ t.nav[2] # "ok") =>
                /\ t.pc = "update"
                /\ ~t.overlays
                /\ t.result # None
                /\ t.result[1].product_name = EmptyStr
                /\ t.result[1].Price = EmptyStr
                /\ t.result[1].discount = EmptyStr
                /\ Contains(t.result[1].error, t.nav[1])
                /\ Contains(t.result[1].error, t.nav[2])
       /\ \A i \in TaskIds :
            (/\ tasks[i].pc = "update"
             /\ Len(tasks[i].nav) = 2
             /\ tasks'[i].pc = "finally") =>
                LET row == db'[CHOOSE k \in 1..Len(db') : db'[k].link = tasks[i].url] IN
                /\ row.product_name = TEXT(EmptyStr)
                /\ row.price = TEXT(EmptyStr)
                /\ row.discount = TEXT(EmptyStr)
                /\ ~row.error.null
                /\ Contains(row.error.text, tasks[i].nav[1])
                /\ Contains(row.error.text, tasks[i].nav[2])
      ]_vars

\* C6 witness: an invocation has just written the record of a page that
\* failed to load twice, with two different errors.
C6_Witness ==
    \E i \in TaskIds :
        /\ tasks[i].pc = "finally"
        /\ tasks[i].writes = 1
        /\ ~tasks[i].overlays
        /\ Row(tasks[i].url).error = TEXT(PageLoadFailed("TimeoutException", "WebDriverException"))
        /\ Row(tasks[i].url).product_name = TEXT(EmptyStr)

\* C7: after the page opened, the row written has the fields-not-found error
\* exactly when title and price are both empty, and a NULL error otherwise.
C7_ErrorNullUnlessBothEmpty ==
    \A i \in TaskIds :
        (/\ tasks[i].pc \in {"finally", "sleep", "done"}
         /\ tasks[i].overlays
         /\ tasks[i].exc = "") =>
            LET row == Row(tasks[i].url)
                both == row.product_name = TEXT(EmptyStr) /\ row.price = TEXT(EmptyStr)
            IN  /\ both <=> row.error = TEXT(FieldsNotFound)
                /\ ~both => row.error = NULL

Elems(seq) == {seq[k] : k \in 1..Len(seq)}

\* C8: add_urls_to_database never leaves two rows with one link, leaves every
\* row that was there as it was, adds a row for each new link and no other,
\* and running it again on the same urls changes nothing.
C8_InsertIdempotent ==
    [][(phase = "idle" /\ phase' = "idle") =>
            /\ \A j, k \in 1..Len(db') : db'[j].link = db'[k].link => j = k
            /\ Len(db') >= Len(db)
            /\ \A k \in 1..Len(db) : db'[k] = db[k]
            /\ \A k \in (Len(db) + 1)..Len(db') : db'[k] = NewRow(db'[k].link)
            /\ Links(db') = Links(db) \cup Elems(links')
            /\ insert_urls(db', links') = db'
      ]_vars

\* C8 witness: the ingestion read the same link twice, and the table already
\* held a scraped row for it.
C8_Witness ==
    /\ phase = "idle"
    /\ Len(links) = 2
    /\ links[1] = links[2]
    /\ \E k \in 1..Len(db) : db[k].link = links[1] /\ db[k].scraped_at # NULL

\* The names the specification gives the columns.
SpecName(column) ==
    CASE column = "link" -> "url"
      [] column = "product_name" -> "name"
      [] OTHER -> column

ExportedRow(row) ==
    <<TEXT(<<row.link>>), row.product_name, row.price, row.discount, row.error,
      row.scraped_at>>

\* C9 as stated: one row per record, and the columns url, name, price,
\* discount, error and no other.
C9_FiveColumns ==
    csv # NoFile =>
        /\ Len(csv[1].rows) = Len(db)
        /\ [j \in 1..Len(csv[1].header) |-> SpecName(csv[1].header[j])]
                = <<"url", "name", "price", "discount", "error">>
        /\ \A k \in 1..Len(csv[1].rows) : Len(csv[1].rows[k]) = 5

\* C9 amended: one row per record, in table order, and the columns url, name,
\* price, discount, error, scraped_at: every column of the table.
C9_TableColumns ==
    csv # NoFile =>
        /\ Len(csv[1].rows) = Len(db)
        /\ [j \in 1..Len(csv[1].header) |-> SpecName(csv[1].header[j])]
                = <<"url", "name", "price", "discount", "error", "scraped_at">>
        /\ \A k \in 1..Len(db) : csv[1].rows[k] = ExportedRow(db[k])

\* C9 witness: a table of two rows, one of them scraped, has been exported.
C9_Witness ==
    /\ csv # NoFile
    /\ Len(db) = 2
    /\ \E k \in 1..Len(db) : db[k].scraped_at # NULL /\ db[k].price = TEXT(<<"$9.99">>)

\* C10: the export starts only when no invocation is in flight, it holds the
\* rows as the invocations wrote them, and a run that submitted work ends
\* with the export.
C10_ExportAfterAllWorkers ==
    /\ (phase = "export" \/ csv # NoFile) => AllDone
    /\ csv # NoFile => \A k \in 1..Len(db) : csv[1].rows[k] = ExportedRow(db[k])
    /\ phase = "exited" => tasks = <<>>

\* C11: when no row is pending as main starts, main exits at once: nothing is
\* submitted, so no invocation runs and no browser is created, no row of the
\* table changes, and nothing is exported before the process is gone.
C11_EmptySelectionExits ==
    [][/\ (/\ phase = "idle"
           /\ phase' # "idle"
           /\ \A k \in 1..Len(db) : db[k].product_name # NULL /\ db[k].error = NULL) =>
                /\ phase' = "exited"
                /\ tasks' = <<>>
                /\ db' = db
                /\ csv' = NoFile
       /\ (phase = "exited" /\ tasks = <<>>) =>
                /\ phase' = "idle"
                /\ tasks' = <<>>
                /\ db' = db
                /\ csv' = NoFile
      ]_vars

\* C11 witness: main has exited on a table of two rows, both scraped before
\* and neither pending.
C11_Witness ==
    /\ phase = "exited"
    /\ tasks = <<>>
    /\ Len(db) = 2
    /\ \A k \in 1..Len(db) : db[k].product_name = TEXT(<<"Widget">>) /\ db[k].error = NULL

OpenDrivers == {i \in TaskIds : tasks[i].driver = "open"}

C13_OneWritePerInvocation ==
    [][(phase' # "idle" /\ Len(tasks') = Len(tasks)) =>
            \A i \in TaskIds :
                /\ tasks'[i].writes <= 1
                /\ tasks'[i].pc = "done" => tasks'[i].writes = 1
                /\ tasks'[i].writes # tasks[i].writes =>
                        \A k \in 1..Len(db) :
                            IF db[k].link = tasks[i].url
                            THEN /\ db'[k].link = db[k].link
                                 /\ ~db'[k].product_name.null
                                 /\ ~db'[k].price.null
                                 /\ ~db'[k].discount.null
                                 /\ ~db'[k].error.null
                                 /\ db'[k].scraped_at = CURRENT_TIMESTAMP
                            ELSE db'[k] = db[k]
      ]_vars

\* A candidate the price lookups accept: not empty and holding a digit.
ValidPrice(c) == c # <<>> /\ \E k \in 1..Len(c) : c[k] \in Digits

\* The first candidate of a list that is accepted, '' when there is none.
FirstValid(cands) ==
    LET ok == {k \in 1..Len(cands) : ValidPrice(cands[k])} IN
    IF ok = {} THEN <<>> ELSE cands[CHOOSE k \in ok : \A m \in ok : k <= m]

\* What each strategy has to offer on a page, in the order it reads it.
PrimaryCandidates(pg) ==
    [k \in 1..Len(price_selectors) |-> join(split(try_find(pg.selectors[k]), <<>>))]

ScanCandidates(pg) ==
    [k \in 1..Len(pg.offscreens) |->
        strip(IF pg.offscreens[k].innerText # <<>> THEN pg.offscreens[k].innerText
              ELSE pg.offscreens[k].text)]

MetaCandidates(pg) == [k \in 1..Len(pg.metas) |-> strip(pg.metas[k])]

IsPrefix(a, b) == Len(a) <= Len(b) /\ a = SubSeq(b, 1, Len(a))

\* What C14's two readings share: the first lookup takes the first accepted
\* candidate of the selector list, else of the scan; the meta tags are read
\* only while the price is empty and give their first accepted content; the
\* wait changes no price; a price that is not empty holds a digit.
PriceCascadeCommon ==
    /\ price_pc = "extract" =>
            price_val' = FirstValid(PrimaryCandidates(page) \o ScanCandidates(page))
    /\ price_pc = "meta" =>
            price_val' = IF price_val # <<>> THEN price_val
                         ELSE FirstValid(MetaCandidates(page))
    /\ price_pc = "sleep" => price_val' = price_val /\ price_val = <<>>
    /\ price_val' # <<>> => ValidPrice(price_val')

\* C14 as stated: the strategies run in the order selector list, scan, meta
\* tags and, after the wait, the selector list once more; the price is the
\* first accepted candidate in that order, and it is empty only when all four
\* have run and failed.
C14_RetryPrimaryOnly ==
    [][/\ PriceCascadeCommon
       /\ price_pc = "retry" => price_val' = FirstValid(PrimaryCandidates(page))
       /\ IsPrefix(tried', <<"price_selectors", "offscreens", "metas", "price_selectors">>)
       /\ (price_pc' = "result" /\ price_val' = <<>>) =>
            tried' = <<"price_selectors", "offscreens", "metas", "price_selectors">>
      ]_vars

\* C14 amended: the strategies run in the order selector list, scan, meta tags
\* and, after the wait, the selector list and the scan once more; the price
\* is the first accepted candidate in that order, a candidate without a digit
\* is passed over, and the price is empty only when all five have run and
\* failed.
C14_RetryPrimaryAndScan ==
    [][/\ PriceCascadeCommon
       /\ price_pc = "retry" =>
            price_val' = FirstValid(PrimaryCandidates(page) \o ScanCandidates(page))
       /\ IsPrefix(tried', <<"price_selectors", "offscreens", "metas",
                             "price_selectors", "offscreens">>)
       /\ (price_pc' = "result" /\ price_val' = <<>>) =>
            tried' = <<"price_selectors", "offscreens", "metas",
                       "price_selectors", "offscreens">>
      ]_vars

\* C14 witness: after the wait the selector list offered only a text without
\* a digit, which was passed over, and the scan that followed gave the price.
C14_Witness ==
    /\ price_pc = "result"
    /\ tried = <<"price_selectors", "offscreens", "metas", "price_selectors", "offscreens">>
    /\ \E k \in 1..Len(price_selectors) : try_find(page.selectors[k]) = <<"N", "A">>
    /\ FirstValid(PrimaryCandidates(page)) = <<>>
    /\ price_val = <<"9">>
====
